---- MODULE Spec2Model ----
(***************************************************************************)
(* The Analyze workspace of the trading dashboard                          *)
(* (frontend/src/pages/Analyze.tsx, frontend/src/api.ts,                   *)
(* components/PipelineSteps.tsx): the React state of the page, the chart   *)
(* fetch effect, the pipeline run handler, and the requests in flight.     *)
(*                                                                         *)
(* One action is one browser task: an event handler together with the      *)
(* effects React runs for the state change it made, or the settlement of   *)
(* one promise together with the microtasks chained to it.                 *)
(*                                                                         *)
(* Beside the workspace: the Market page (pages/Market.tsx), the older     *)
(* App.jsx prototype with its Header, and the scanner controls of the      *)
(* static dashboard, each in a variable and a specification of its own.    *)
(***************************************************************************)
EXTENDS Integers, Sequences, FiniteSets, TLC

VARIABLES ws, chartReqs, runs, errTimer, parse, plot, pts, market, app, scan

vars == <<ws, chartReqs, runs, errTimer, parse, plot, pts, market, app, scan>>

\* The variables of the page itself.
page == <<ws, chartReqs, runs, errTimer>>

\* The variables of what is modelled beside the page and its response: a
\* section handed to extractPoints, the Market page, the App prototype and the
\* scanner controls of the static dashboard.
beside == <<pts, market, app, scan>>

\* JavaScript null where a string is expected.
Null == "null"
\* null for selectedStepIndex (an index is 0..6).
NoIndex == -1
\* null for a step's output and a debate thesis; the text derived from the
\* reply of run k is identified by k >= 1.
NoText == 0
\* null for steps.
NoSteps == <<>>
\* null for trade.
NoTrade == [run |-> 0, typed |-> FALSE, ticker |-> <<>>]

-----------------------------------------------------------------------------
(* Bounds of the model                                                     *)

\* Chart fetches issued over a behaviour, the one on mount included.
MaxChartFetches == 3
\* Pipeline runs started over a behaviour.
MaxRuns == 2
\* Candles in a chart payload.
MaxCandles == 1
\* Milliseconds the clock advances in one step (less when a timer is due sooner).
TickMs == 200000
\* Milliseconds the banner's clock advances in one step (less when its timer
\* is due sooner).
BannerTickMs == 3250

-----------------------------------------------------------------------------
(* Strings are sequences of one-character strings.                         *)

RELIANCE == <<"R", "E", "L", "I", "A", "N", "C", "E">>
infy == <<"i", "n", "f", "y">>

\* What the user can type into the ticker box.
TickerInputs == {RELIANCE, infy}

IsSpace(c) == c = " "

RECURSIVE TrimLeft(_)
TrimLeft(s) == IF s # <<>> /\ IsSpace(Head(s)) THEN TrimLeft(Tail(s)) ELSE s

RECURSIVE TrimRight(_)
TrimRight(s) ==
    IF s # <<>> /\ IsSpace(s[Len(s)]) THEN TrimRight(SubSeq(s, 1, Len(s) - 1)) ELSE s

\* String.prototype.trim
Trim(s) == TrimRight(TrimLeft(s))

UpperChar(c) ==
    CASE c = "i" -> "I" [] c = "n" -> "N" [] c = "f" -> "F" [] c = "y" -> "Y"
      [] OTHER -> c

\* String.prototype.toUpperCase
ToUpperCase(s) == [i \in 1..Len(s) |-> UpperChar(s[i])]

-----------------------------------------------------------------------------
(* The chart channel                                                       *)

PERIODS == <<
    [label |-> "1D", period |-> "5d", interval |-> "15m"],
    [label |-> "1W", period |-> "1mo", interval |-> "1h"],
    [label |-> "1M", period |-> "6mo", interval |-> "1d"],
    [label |-> "3M", period |-> "1y", interval |-> "1d"],
    [label |-> "1Y", period |-> "2y", interval |-> "1d"] >>

\* useState(2): the index into PERIODS, counted from 0 as the code does.
DefaultPeriodIdx == 2

\* The period buttons the model presses.
PeriodChoices == {DefaultPeriodIdx, DefaultPeriodIdx + 1}

CurrentPeriod(idx) == PERIODS[idx + 1]

ChartLimit == 260

\* The argument of fetchMarket: ticker.trim() || "RELIANCE", and the period row.
ChartParams(t, idx) ==
    [ticker |-> IF Trim(t) = <<>> THEN RELIANCE ELSE Trim(t),
     period |-> CurrentPeriod(idx).period,
     interval |-> CurrentPeriod(idx).interval,
     limit |-> ChartLimit]

\* No response yet.
NoReply == [kind |-> Null, status |-> Null, n |-> 0, error_message |-> Null]

\* A request of the chart effect.  cancelled is the closure's flag; aborted is
\* the transport's state of the HTTP request (fetchMarket passes no signal to
\* fetch); state is "pending" until the promise settles, then "settled", and
\* reply is what it settled with; stale records that it settled after its
\* effect was cleaned up.
NewChartReq(t, idx) ==
    [params |-> ChartParams(t, idx), cancelled |-> FALSE, aborted |-> FALSE,
     state |-> "pending", reply |-> NoReply, stale |-> FALSE]

\* The candles the server returns for request id: n bars of what was asked.
Payload(id, params, n) ==
    [i \in 1..n |-> [req |-> id, ticker |-> params.ticker,
                     period |-> params.period, bar |-> i]]

\* What fetchMarket can settle with: a JSON body, or a rejection carrying a
\* message (HTTP failure detail, network failure, unreadable body).
ChartResponses ==
    [kind : {"json"}, status : {"success"}, n : 0..MaxCandles, error_message : {Null}]
    \cup [kind : {"json"}, status : {"error"}, n : {0},
          error_message : {Null, "No data found"}]
    \cup [kind : {"reject"}, status : {Null}, n : {0},
          error_message : {"Failed to fetch"}]

\* The effect's cleanup: cancelled = true in the closure of the last effect.
ChartCleanup(reqs) ==
    IF reqs = <<>> THEN reqs
    ELSE [reqs EXCEPT ![Len(reqs)].cancelled = TRUE]

\* The effect's body up to the fetch: setChartLoading(true); setChartError(null).
ChartEffectStart(w) == [w EXCEPT !.chartLoading = TRUE, !.chartError = Null]

\* .then without the cancelled guard.
ChartThenUnguarded(w, cancelled, id, params, d) ==
    IF d.status # "success"
    THEN [w EXCEPT !.chartError =
                       IF d.error_message # Null THEN d.error_message
                       ELSE "Failed to load chart",
                   !.candles = <<>>]
    ELSE [w EXCEPT !.candles = Payload(id, params, d.n)]

\* .then of the chart effect.
ChartThen(w, cancelled, id, params, d) ==
    IF cancelled THEN w
    ELSE IF d.status # "success"
         THEN [w EXCEPT !.chartError =
                            IF d.error_message # Null THEN d.error_message
                            ELSE "Failed to load chart",
                        !.candles = <<>>]
         ELSE [w EXCEPT !.candles = Payload(id, params, d.n)]

\* .catch without the cancelled guard.
ChartCatchUnguarded(w, cancelled, message) == [w EXCEPT !.chartError = message]

\* .catch reporting into the page's error banner.
ChartCatchIntoBanner(w, cancelled, message) ==
    IF ~cancelled THEN [w EXCEPT !.error = message] ELSE w

\* .catch of the chart effect.
ChartCatch(w, cancelled, message) ==
    IF ~cancelled THEN [w EXCEPT !.chartError = message] ELSE w

\* .finally without the cancelled guard.
ChartFinallyUnguarded(w, cancelled) == [w EXCEPT !.chartLoading = FALSE]

\* .finally of the chart effect.
ChartFinally(w, cancelled) ==
    IF ~cancelled THEN [w EXCEPT !.chartLoading = FALSE] ELSE w

\* The whole promise chain of one chart request settling with d.
ChartSettle(w, cancelled, id, params, d) ==
    ChartFinally(
        IF d.kind = "json" THEN ChartThen(w, cancelled, id, params, d)
        ELSE ChartCatch(w, cancelled, d.error_message),
        cancelled)

-----------------------------------------------------------------------------
(* The pipeline channel                                                    *)

\* setTimeout(() => controller.abort(), 300_000) in runAnalysis.
TIMEOUT_MS == 300000

TimeoutMessage == "Analysis timed out (>5 min). Try again."

NumSteps == 7

PendingStep == [status |-> "pending", summary |-> Null, output |-> NoText, duration |-> Null]

\* The steps handleRun shows while the request is in flight.
RunningSteps ==
    <<[status |-> "running", summary |-> "Running AI pipeline", output |-> NoText,
       duration |-> Null]>>
    \o [i \in 1..(NumSteps - 1) |-> PendingStep]

NoDebate == [bull |-> NoText, bear |-> NoText]

\* The bodies /api/analyze answers with, by shape.  "typed": trade, seven steps
\* with outputs and debate are all structured.  "text": only the reply text.
\* "badsteps": a typed trade and a steps array of seven nulls, on which
\* parsePipelineSteps throws after setTrade has run.
AnalysisBodies == {"typed", "text", "badsteps"}

\* A run of handleRun.  raw is the ticker of the closure, ticker the one
\* posted (runAnalysis trims and uppercases); phase is "headers" while fetch()
\* is unsettled, "body" while res.json() is, then "settled"; timer tells
\* whether the abort timer is armed; elapsed is the time since the request was
\* issued, kept while it is unsettled; overlapped records that an earlier run
\* was unsettled at the start.
NewRun(t, busy) ==
    [raw |-> t, ticker |-> ToUpperCase(Trim(t)), phase |-> "headers",
     timer |-> TRUE, elapsed |-> 0, outcome |-> Null, message |-> Null,
     overlapped |-> busy]

\* handleRun without setSelectedStepIndex(null).
RunStartKeepsSelection(w) ==
    [w EXCEPT !.loading = TRUE, !.error = Null, !.trade = NoTrade,
              !.steps = RunningSteps, !.debate = NoDebate]

\* handleRun up to the await: the six setters and the placeholder steps.
RunStart(w) ==
    [w EXCEPT !.loading = TRUE, !.error = Null, !.trade = NoTrade,
              !.steps = RunningSteps, !.debate = NoDebate,
              !.selectedStepIndex = NoIndex]

\* The trade handleRun sets from the body of run id (typed, or parseTrade of
\* the text); the ticker falls back to the closure's.
TradeOf(id, raw, body) ==
    [run |-> id, typed |-> body # "text",
     ticker |-> IF body = "text" THEN raw ELSE ToUpperCase(Trim(raw))]

\* parsePipelineSteps: seven steps; outputs only from a typed steps array.
StepsOf(id, body) ==
    [i \in 1..NumSteps |->
        IF body = "typed"
        THEN [status |-> "complete", summary |-> "Complete", output |-> id,
              duration |-> Null]
        ELSE [status |-> IF i = 1 THEN "complete" ELSE "pending",
              summary |-> IF i = 1 THEN "Regime analyzed" ELSE Null,
              output |-> NoText, duration |-> Null]]

\* The debate handleRun sets (typed, or parseBullBear of the text).
DebateOf(id, body) ==
    [bull |-> id, bear |-> id]

\* catch (err) without setSteps(null).
RunCatchKeepsSteps(w, message) == [w EXCEPT !.error = message]

\* catch (err) of handleRun.
RunCatch(w, message) == [w EXCEPT !.error = message, !.steps = NoSteps]

\* finally of handleRun.
RunFinally(w) == [w EXCEPT !.loading = FALSE]

\* handleRun after the await resolved with body.
RunResolved(w, id, raw, body) ==
    RunFinally(
        IF body = "badsteps"
        THEN RunCatch([w EXCEPT !.trade = TradeOf(id, raw, body)],
                      "Cannot read properties of null")
        ELSE [w EXCEPT !.trade = TradeOf(id, raw, body),
                       !.steps = StepsOf(id, body),
                       !.debate = DebateOf(id, body)])

\* handleRun after the await rejected with an Error carrying message.
RunRejected(w, message) == RunFinally(RunCatch(w, message))

\* What fetch() itself can fail with in runAnalysis, other than the abort:
\* a non-ok status (throw new Error(`API error: ${res.status}`)), a network error.
FetchFailures == {"API error: 500", "Failed to fetch"}

\* What res.json() can reject with once the headers are in.
BodyFailures == {"Unexpected end of JSON input"}

\* The finally of runAnalysis: clearTimeout(timeoutId).  It runs when fetch()
\* settles: return res.json() hands the promise back without awaiting it.
ClearTimer(r) == [r EXCEPT !.timer = FALSE]

Min(a, b) == IF a < b THEN a ELSE b

-----------------------------------------------------------------------------
(* The analyze response                                                    *)

\* A number that is absent (prices and convictions are never negative).
NoNum == -1

\* Numbers of a response are held in thousandths.
Unit == 1000

\* A text is a sequence of lines "label: value"; a line without a colon has
\* the label "", a value that is a number has it in num.
Line(label, word, num) == [label |-> label, word |-> word, num |-> num]

Word(w) == Line("", w, NoNum)

\* The i flag of the patterns, on the words the responses use.
Lower(s) ==
    CASE s = "REJECTED" -> "rejected"
      [] s = "Skipped" -> "skipped"
      [] s = "Killed" -> "killed"
      [] s = "True" -> "true"
      [] s = "Regime" -> "regime"
      [] s = "BULL" -> "bull"
      [] s = "BEAR" -> "bear"
      [] s = "SIDEWAYS" -> "sideways"
      [] s = "Verdict" -> "verdict"
      [] s = "Decision" -> "decision"
      [] s = "Action" -> "action"
      [] s = "Signal" -> "signal"
      [] s = "SELL" -> "sell"
      [] s = "BUY" -> "buy"
      [] s = "HOLD" -> "hold"
      [] s = "Entry" -> "entry"
      [] s = "Entry Price" -> "entry price"
      [] s = "Stop" -> "stop"
      [] s = "Stop Loss" -> "stop loss"
      [] s = "Target" -> "target"
      [] s = "Risk Reward" -> "risk reward"
      [] s = "Status" -> "status"
      [] s = "Reason" -> "reason"
      [] s = "Kill Reason" -> "kill reason"
      [] s = "Ticker" -> "ticker"
      [] s = "Conviction" -> "conviction"
      [] s = "BULL_THESIS" -> "bull_thesis"
      [] s = "BEAR_THESIS" -> "bear_thesis"
      [] s = "CIO_DECISION" -> "cio_decision"
      [] OTHER -> s

\* Some line of text carries one of the words, as its label or as its value.
Has(text, words) ==
    \E k \in 1..Len(text) :
        Lower(text[k].label) \in words \/ Lower(text[k].word) \in words

\* Some line of text has one of the labels followed by digits.
HasNumber(text, labels) ==
    \E k \in 1..Len(text) :
        Lower(text[k].label) \in labels /\ text[k].num # NoNum

\* The word captured on the first line with one of the labels (and, when
\* among is given, one of those values); Null when no line matches.
Captured(text, labels, among) ==
    LET hits == {k \in 1..Len(text) :
                    /\ Lower(text[k].label) \in labels
                    /\ text[k].word # ""
                    /\ among # {} => Lower(text[k].word) \in among}
    IN  IF hits = {} THEN Null
        ELSE text[CHOOSE k \in hits : \A h \in hits : k <= h].word

\* const names of parsePipelineSteps.
names ==
    <<"Regime Analyst", "Stock Scanner", "Dividend Scanner",
      "Debate (Bull vs Bear)", "Trade Executor", "Portfolio Manager",
      "Autonomous Flow">>

RegimeWords == {"bull", "bear", "sideways"}

\* patterns[name]?.test(text); no pattern for a name outside names.
Pattern(name, text) ==
    CASE name = "Regime Analyst" ->
            \/ Captured(text, {"regime"}, RegimeWords) # Null
            \/ Has(text, {"market regime", "regime_suitability"})
      [] name = "Stock Scanner" ->
            \/ Has(text, {"scan_watchlist", "breakout", "oversold",
                          "stocks_scanned", "signal_counts", "above_50dma",
                          "support_zone"})
            \/ HasNumber(text, {"rsi"})
      [] name = "Dividend Scanner" ->
            Has(text, {"dividend", "yield", "ex-date", "exdate"})
      [] name = "Debate (Bull vs Bear)" ->
            Has(text, {"bull case", "bear case", "bull_thesis", "bear_thesis",
                       "cio_decision", "debate", "bull advocate",
                       "bear advocate"})
      [] name = "Trade Executor" ->
            \/ HasNumber(text, {"entry", "entry price", "stop loss", "target"})
            \/ Has(text, {"risk reward", "risk_reward", "trade plan",
                          "check_risk", "paper trade"})
      [] name = "Portfolio Manager" ->
            Has(text, {"portfolio", "holdings", "cash balance",
                       "cash available", "unrealized", "positions"})
      [] name = "Autonomous Flow" ->
            Has(text, {"autonomous", "trading loop", "scan execute",
                       "auto trade"})
      [] OTHER -> FALSE

\* /REJECTED|SKIPPED|killed/i.test(text)
Rejected(text) == Has(text, {"rejected", "skipped", "killed"})

\* reason[1].slice(0, 60)
SliceLen == 60

\* The summary synthesised for a step whose pattern matched; rejectedDefault
\* is the text for a rejected trade without a reason line. (Reasons in the
\* responses here are shorter than SliceLen characters.)
Summary(name, text, rejectedDefault) ==
    CASE name = "Regime Analyst" ->
            LET regime == Captured(text, {"regime"}, RegimeWords)
            IN  IF regime # Null THEN "Market regime: " \o regime
                ELSE "Regime analyzed"
      [] name = "Trade Executor" ->
            IF Rejected(text)
            THEN LET reason == Captured(text, {"reason", "kill reason"}, {})
                 IN  IF reason # Null /\ Len(reason) <= SliceLen
                     THEN "REJECTED: " \o reason
                     ELSE rejectedDefault
            ELSE LET action == Captured(text, {"decision", "action", "verdict",
                                               "signal"}, {})
                 IN  IF action # Null THEN "Decision: " \o action
                     ELSE "Trade evaluated"
      [] name = "Debate (Bull vs Bear)" ->
            LET verdict == Captured(text, {"verdict", "decision"},
                                    {"buy", "sell", "hold"})
            IN  IF verdict # Null THEN "Verdict: " \o verdict
                ELSE "Debate complete"
      [] OTHER -> "Complete"

\* A step of a typed steps array; status and summary "" and output <<>> when
\* the server left them out.
RawStep(status, summary, output) ==
    [status |-> status, summary |-> summary, output |-> output]

\* parsePipelineSteps, typed path: one entry of backendSteps.map.
TypedStep(step, i, text) ==
    LET name == IF i <= Len(names) THEN names[i] ELSE ""
        status == IF step.status = "" THEN "pending" ELSE step.status
        summary == IF step.summary = "" THEN Null ELSE step.summary
        upgrade == status = "pending" /\ Pattern(name, text)
    IN  [status |-> IF ~upgrade THEN status
                    ELSE IF name = "Trade Executor" /\ Rejected(text)
                         THEN "flagged" ELSE "complete",
         summary |-> IF upgrade THEN Summary(name, text, "Trade rejected")
                     ELSE summary,
         output |-> IF step.output = <<>> THEN NoText ELSE step.output,
         duration |-> Null]

\* parsePipelineSteps, text fallback: one entry of names.map.
TextStep(name, text) ==
    LET matched == Pattern(name, text)
        isFlagged == name = "Trade Executor" /\ Rejected(text)
    IN  [status |-> IF isFlagged THEN "flagged"
                    ELSE IF matched THEN "complete" ELSE "pending",
         summary |-> IF matched
                     THEN Summary(name, text, "Trade rejected/skipped")
                     ELSE Null,
         output |-> NoText,
         duration |-> Null]

\* parsePipelineSteps(text, backendSteps); backendSteps <<>> when the
\* response has no steps array.
parsePipelineSteps(text, backendSteps) ==
    IF Len(backendSteps) >= Len(names)
    THEN [i \in 1..Len(backendSteps) |-> TypedStep(backendSteps[i], i, text)]
    ELSE [i \in 1..Len(names) |-> TextStep(names[i], text)]

\* The outputs of the steps of a typed array, one after the other.
RECURSIVE Outputs(_)
Outputs(steps) ==
    IF steps = <<>> THEN <<>> ELSE Head(steps).output \o Outputs(Tail(steps))

\* fullText of handleRun: the reply and every non-empty step output.
FullText(reply, backendSteps) == reply \o Outputs(backendSteps)

\* A string that is present and not empty.
Truthy(s) == s # Null /\ s # ""

\* A number that is present and not zero.
NumTruthy(n) == n # NoNum /\ n # 0

\* a ?? b on numbers.
Coalesce(a, b) == IF a # NoNum THEN a ELSE b

\* toUpperCase, on the words the responses use.
Upper(s) ==
    CASE s = "sell" -> "SELL"
      [] s = "buy" -> "BUY"
      [] s = "hold" -> "HOLD"
      [] OTHER -> s

\* The one element of a singleton. Only({F(x) : x \in {e}}) is F(e) with e
\* evaluated once.
Only(S) == CHOOSE x \in S : TRUE

\* The least number of a set.
Least(S) == CHOOSE x \in S : \A y \in S : x <= y

\* The index of the first line of text with one of the labels, 0 for none.
FirstLine(text, labels) ==
    Only({IF hits = {} THEN 0 ELSE Least(hits) :
            hits \in {{k \in 1..Len(text) : Lower(text[k].label) \in labels}}})

\* g(key) of parseTrade: the value after the first "key:". The pattern is
\* not anchored, so labels ending in key count.
g(text, labels) ==
    LET k == FirstLine(text, labels)
    IN  IF k = 0 THEN Null ELSE text[k].word

\* num(key) of parseTrade: the number read from g(key).
num(text, labels) ==
    LET k == FirstLine(text, labels)
    IN  IF k = 0 THEN NoNum ELSE text[k].num

\* The labels extractRiskDetails looks for.
RiskFields ==
    <<"position size", "risk per share", "total risk", "risk reward",
      "risk reward ratio", "conviction", "reason", "regime", "action">>

\* extractRiskDetails: the labels found, each with its line; {} for null.
extractRiskDetails(text) ==
    {<<RiskFields[i], text[FirstLine(text, {RiskFields[i]})]>> :
        i \in {j \in 1..Len(RiskFields) : FirstLine(text, {RiskFields[j]}) # 0}}

NoDetails == {}

\* A trade as handleRun stores it.
Trade(ticker, action, entry, stop, target, riskReward, regime, conviction, killed, killReason, riskDetails) ==
    [ticker |-> ticker, action |-> action, entry |-> entry, stop |-> stop,
     target |-> target, riskReward |-> riskReward, regime |-> regime,
     conviction |-> conviction, killed |-> killed, killReason |-> killReason,
     riskDetails |-> riskDetails]

\* parseTrade(text)
parseTrade(text) ==
    LET killReason == g(text, {"reason", "kill reason"})
        status == g(text, {"status"})
        statusVal == IF Truthy(status) THEN status
                     ELSE LET k == g(text, {"killed"})
                          IN  IF Truthy(k) THEN k ELSE ""
        killed == Lower(statusVal) \in {"rejected", "true"}
        verdict == g(text, {"verdict"})
        action == g(text, {"action"})
        signal == g(text, {"signal"})
    IN  Trade(g(text, {"ticker"}),
              IF Truthy(verdict) THEN Upper(verdict)
              ELSE IF Truthy(action) THEN Upper(action)
              ELSE IF signal # Null THEN Upper(signal) ELSE Null,
              Coalesce(num(text, {"entry"}), num(text, {"entry price"})),
              Coalesce(num(text, {"stop loss"}), num(text, {"stop"})),
              num(text, {"target", "price target"}),
              Coalesce(num(text, {"risk reward"}),
                       num(text, {"risk reward ratio"})),
              g(text, {"regime", "market regime"}),
              num(text, {"conviction"}),
              killed,
              IF Truthy(killReason) THEN killReason ELSE Null,
              IF killed THEN extractRiskDetails(text) ELSE NoDetails)

\* No typed trade in the response.
NoTypedTrade ==
    [present |-> FALSE,
     t |-> Trade(Null, Null, NoNum, NoNum, NoNum, NoNum, Null, NoNum, FALSE,
                 Null, NoDetails)]

\* The trade handleRun sets: the typed one when its action or entry is
\* truthy, else parseTrade of the full text; ticker is handleRun's ticker.
TradeFor(typed, fullText, ticker) ==
    LET t == typed.t
    IN  IF typed.present /\ (Truthy(t.action) \/ NumTruthy(t.entry))
        THEN Trade(IF Truthy(t.ticker) THEN t.ticker ELSE ticker,
                   IF Truthy(t.action) THEN t.action ELSE Null,
                   t.entry, t.stop, t.target, t.riskReward,
                   IF Truthy(t.regime) THEN t.regime ELSE Null,
                   t.conviction,
                   t.killed,
                   IF Truthy(t.killReason) THEN t.killReason ELSE Null,
                   t.riskDetails)
        ELSE LET tradeData == parseTrade(fullText)
             IN  [tradeData EXCEPT
                    !.ticker = IF Truthy(@) THEN @ ELSE ticker]

\* 0.5, the conviction of a thesis that states none.
DefaultConviction == Unit \div 2

\* No thesis (null).
NoThesis == [present |-> FALSE, points |-> <<>>, conviction |-> NoNum]

Thesis(points, conviction) ==
    [present |-> TRUE, points |-> points, conviction |-> conviction]

\* The line as a string.
LineString(l) ==
    LET value == IF l.num = NoNum THEN l.word ELSE ToString(l.num \div Unit)
    IN  IF l.label = "" THEN value ELSE l.label \o ": " \o value

MinPointLen == 10
MaxPointLen == 300
MaxPoints == 6

\* The filter of extractPoints. (Lines in the responses here do not start
\* with bullets, digits or blanks, which extractPoints strips.)
IsPoint(l) ==
    /\ Len(LineString(l)) > MinPointLen
    /\ Len(LineString(l)) < MaxPointLen
    /\ Lower(l.label) \notin {"conviction", "bull_thesis", "bear_thesis",
                              "cio_decision"}

\* extractPoints(section)
extractPoints(section) ==
    Only({[i \in 1..Min(MaxPoints, n) |-> LineString(kept[i])] :
            kept \in {SelectSeq(section, IsPoint)},
            n \in {Len(SelectSeq(section, IsPoint))}})

\* extractConviction(section): a value above 1 is a percentage.
extractConviction(section) ==
    Only({IF v = NoNum THEN DefaultConviction
          ELSE IF v > Unit THEN v \div 100 ELSE v :
            v \in {num(section, {"conviction"})}})

\* The lines of src from s + 1 up to the next line with a label of stops.
UpTo(src, s, stops) ==
    Only({SubSeq(src, s + 1, Least({Len(src) + 1} \cup ends) - 1) :
            ends \in {{k \in (s + 1)..Len(src) : Lower(src[k].label) \in stops}}})

\* The text of src after the first line with a label of starts, up to the
\* next line with a label of stops; <<>> when there is no such line.
Section(src, starts, stops) ==
    Only({IF s = 0 THEN <<>>
          ELSE (IF src[s].word = "" THEN <<>> ELSE <<Word(src[s].word)>>)
               \o UpTo(src, s, stops) :
            s \in {FirstLine(src, starts)}})

BullLabels == {"bull", "bullish", "bull case", "bull thesis", "bull_thesis",
               "bull advocate", "bull analysis"}
BearLabels == {"bear", "bearish", "bear case", "bear thesis", "bear_thesis",
               "bear advocate", "bear analysis"}

\* a || b on texts.
OrElse(a, b) == IF a # <<>> THEN a ELSE b

\* tryExtractBullBear(src): labelled theses, then the summaries of the
\* decision, then any bull/bear heading.
tryExtractBullBear(src) ==
    Only({[b |-> OrElse(b1, OrElse(b2, b3)), r |-> OrElse(r1, OrElse(r2, r3))] :
            b1 \in {Section(src, {"bull_thesis"},
                            {"bear_thesis", "cio_decision"})},
            r1 \in {Section(src, {"bear_thesis"},
                            {"cio_decision", "bull_thesis"})},
            b2 \in {Section(src, {"bull summary"},
                            {"bear summary", "reasoning"})},
            r2 \in {Section(src, {"bear summary"},
                            {"reasoning", "bull summary"})},
            b3 \in {Section(src, BullLabels,
                            BearLabels \cup {"bear summary", "cio_decision"})},
            r3 \in {Section(src, BearLabels, {"cio_decision", "reasoning"})}})

\* The index of the Debate step in names, and its place in a steps array.
DebateIndex == 3

\* The theses of parseBullBear from what tryExtractBullBear found in the
\* Debate step's output (own) and in the full text (full).
Theses(debateOutput, own, full) ==
    Only({[bull |-> Thesis(extractPoints(bullText),
                           extractConviction(bullText)),
           bear |-> Thesis(extractPoints(bearText),
                           extractConviction(bearText))] :
            bullText \in {OrElse(IF own.b = <<>> /\ own.r = <<>>
                                 THEN debateOutput ELSE own.b, full.b)},
            bearText \in {OrElse(IF own.b = <<>> /\ own.r = <<>>
                                 THEN debateOutput ELSE own.r, full.r)}})

\* parseBullBear(text, backendSteps)
parseBullBear(text, backendSteps) ==
    Only({Only({Theses(debateOutput, own, full) :
                  own \in {tryExtractBullBear(debateOutput)},
                  full \in {tryExtractBullBear(text)}}) :
            debateOutput \in {IF Len(backendSteps) >= DebateIndex + 1
                              THEN backendSteps[DebateIndex + 1].output
                              ELSE <<>>}})

\* No typed debate in the response.
NoTypedDebate == [bull |-> NoThesis, bear |-> NoThesis]

\* The debate handleRun sets: the typed one when it has a thesis (points
\* defaulting to [], conviction to 0.5), else parseBullBear of the full text.
DebateFor(typed, fullText, backendSteps) ==
    LET adopt(t) == IF t.present
                    THEN Thesis(t.points, Coalesce(t.conviction, DefaultConviction))
                    ELSE NoThesis
    IN  IF typed.bull.present \/ typed.bear.present
        THEN [bull |-> adopt(typed.bull), bear |-> adopt(typed.bear)]
        ELSE parseBullBear(fullText, backendSteps)

\* pct of ThesisPanel: Math.round((conviction || 0) * 100), conviction being
\* thesis?.conviction || 0 of DebatePanel.
Pct(thesis) ==
    LET conviction == IF thesis.present /\ NumTruthy(thesis.conviction)
                      THEN thesis.conviction ELSE 0
    IN  (conviction * 100 + Unit \div 2) \div Unit

\* A trade that is set, and no trade (null).
Present(t) == [present |-> TRUE, t |-> t]

\* handleRun seen from one response: the response (reply, steps, trade,
\* debate), handleRun's ticker, how far handleRun is, and what it has set.
NoParse ==
    [phase |-> "idle", ticker |-> "RELIANCE", reply |-> <<>>, steps |-> <<>>,
     trade |-> NoTypedTrade, debate |-> NoTypedDebate,
     outTrade |-> NoTypedTrade, outSteps |-> NoSteps,
     outDebate |-> NoTypedDebate]

\* handleRun up to the await: trade, debate cleared, the placeholder steps.
ParseStart ==
    /\ parse.phase = "idle"
    /\ parse' = [parse EXCEPT !.phase = "running",
                              !.outTrade = NoTypedTrade,
                              !.outSteps = RunningSteps,
                              !.outDebate = NoTypedDebate]
    /\ UNCHANGED <<page, plot, beside>>

\* handleRun after the await: setTrade, setSteps, setDebate.
ParseBody ==
    /\ parse.phase = "running"
    /\ LET fullText == FullText(parse.reply, parse.steps)
       IN  parse' = [parse EXCEPT
                !.phase = "done",
                !.outTrade = Present(TradeFor(parse.trade, fullText,
                                              parse.ticker)),
                !.outSteps = parsePipelineSteps(fullText, parse.steps),
                !.outDebate = DebateFor(parse.debate, fullText, parse.steps)]
    /\ UNCHANGED <<page, plot, beside>>

ParseNext == ParseStart \/ ParseBody

-----------------------------------------------------------------------------
(* The candlestick chart                                                   *)

\* priceMin and priceMax are held in thousandths of the unit of the prices.
PriceScale == 1000

\* Math.min(...lows) * 0.998 and Math.max(...highs) * 1.002, in thousandths.
LowFactor == 998
HighFactor == 1002

\* The greatest number of a set.
Greatest(S) == CHOOSE x \in S : \A y \in S : x >= y

\* priceMin and priceMax of CandlestickSVG for its candles.
PriceMin(candles) ==
    Least({candles[k].low : k \in 1..Len(candles)}) * LowFactor

PriceMax(candles) ==
    Greatest({candles[k].high : k \in 1..Len(candles)}) * HighFactor

\* No chart drawn.
NoPlot == [candles |-> <<>>, drawn |-> FALSE, priceMin |-> 0, priceMax |-> 0]

\* CandlestickSVG renders its candles: the useMemo of the scales.
Render ==
    /\ ~plot.drawn
    /\ plot.candles # <<>>
    /\ plot' = [plot EXCEPT !.drawn = TRUE,
                            !.priceMin = PriceMin(plot.candles),
                            !.priceMax = PriceMax(plot.candles)]
    /\ UNCHANGED <<page, parse, beside>>

-----------------------------------------------------------------------------
(* The error banner                                                        *)

\* setTimeout(() => setError(null), 6500) in the auto-dismiss effect.
ERROR_MS == 6500

\* The timer of the auto-dismiss effect: armed while a timeout is pending,
\* elapsed the time since it was armed; age is the time since the error now
\* in the banner was placed there.
NoTimer == [armed |-> FALSE, elapsed |-> 0, age |-> 0]

\* The effect without its cleanup: a pending timeout is left to run.
ErrorEffectNoCleanup(t, old, new) ==
    IF new = old THEN t
    ELSE IF t.armed THEN t
    ELSE [t EXCEPT !.armed = new # Null, !.elapsed = 0]

\* The auto-dismiss effect after a render, deps [error]: nothing when error
\* is the same value; else the cleanup (clearTimeout) and the body, which arms
\* a timeout only for a truthy error.
ErrorEffect(t, old, new) ==
    IF new = old THEN t
    ELSE [t EXCEPT !.armed = new # Null, !.elapsed = 0]

-----------------------------------------------------------------------------
(* A section handed to extractPoints                                       *)

\* Nothing handed over yet.
NoPoints == [phase |-> "idle", section |-> <<>>, out |-> <<>>]

\* extractPoints is called with the section.
ExtractPoints ==
    /\ pts.phase = "idle"
    /\ pts' = [pts EXCEPT !.phase = "done", !.out = extractPoints(pts.section)]
    /\ UNCHANGED <<page, parse, plot, market, app, scan>>

-----------------------------------------------------------------------------
(* The Market page (frontend/src/pages/Market.tsx)                         *)

\* Calls of fetchMarket over a behaviour, the one on mount included.
MaxMarketFetches == 3

\* useState(500)
MarketLimit == 500

\* The period and interval buttons the model presses.
MarketPeriods == {"6mo", "1y"}
MarketIntervals == {"1d", "1wk"}

\* null for data.
NoData == [present |-> FALSE, candles |-> <<>>]

\* The query of fetchMarket: ticker.trim() || DEFAULT_TICKER, period,
\* interval, limit.
MarketParams(m) ==
    [ticker |-> IF Trim(m.ticker) = <<>> THEN RELIANCE ELSE Trim(m.ticker),
     period |-> m.period, interval |-> m.chartInterval, limit |-> MarketLimit]

\* fetchMarket up to the fetch: setLoading(true), setError(null), the GET.
fetchMarket(m) ==
    [m EXCEPT !.loading = TRUE, !.error = Null,
              !.reqs = Append(@, [params |-> MarketParams(m),
                                  state |-> "pending", reply |-> NoReply])]

\* The second .then of fetchMarket for request id.
MarketThen(m, id, d) ==
    IF d.status # "success"
    THEN [m EXCEPT !.error = IF d.error_message # Null THEN d.error_message
                             ELSE "Failed to load market data",
                   !.data = NoData]
    ELSE [m EXCEPT !.data = [present |-> TRUE,
                             candles |-> Payload(id, m.reqs[id].params, d.n)]]

\* .catch of fetchMarket.
MarketCatch(m, message) == [m EXCEPT !.error = message, !.data = NoData]

\* .finally of fetchMarket.
MarketFinally(m) == [m EXCEPT !.loading = FALSE]

\* The Market page after mount: the effect has called fetchMarket.
MarketMount ==
    fetchMarket([ticker |-> RELIANCE, period |-> "6mo", chartInterval |-> "1d",
                 data |-> NoData, loading |-> TRUE, error |-> Null,
                 reqs |-> <<>>])

\* onChange of the ticker input of the Market page.
MarketSetTicker(t) ==
    /\ t # market.ticker
    /\ market' = [market EXCEPT !.ticker = t]
    /\ UNCHANGED <<page, parse, plot, pts, app, scan>>

\* onClick of a period button: setPeriod, and the effect its change triggers.
MarketSetPeriod(p) ==
    /\ p # market.period
    /\ Len(market.reqs) < MaxMarketFetches
    /\ market' = fetchMarket([market EXCEPT !.period = p])
    /\ UNCHANGED <<page, parse, plot, pts, app, scan>>

\* onClick of an interval button: setChartInterval, and the effect.
MarketSetInterval(i) ==
    /\ i # market.chartInterval
    /\ Len(market.reqs) < MaxMarketFetches
    /\ market' = fetchMarket([market EXCEPT !.chartInterval = i])
    /\ UNCHANGED <<page, parse, plot, pts, app, scan>>

\* onSubmit of the form (Apply, or Enter in the ticker input).
handleTickerSubmit ==
    /\ Len(market.reqs) < MaxMarketFetches
    /\ market' = fetchMarket(market)
    /\ UNCHANGED <<page, parse, plot, pts, app, scan>>

\* The promise chain of request i of the Market page settles with d.
MarketResponse(i, d) ==
    /\ market.reqs[i].state = "pending"
    /\ market' = [MarketFinally(IF d.kind = "json" THEN MarketThen(market, i, d)
                                ELSE MarketCatch(market, d.error_message))
                     EXCEPT !.reqs[i].state = "settled", !.reqs[i].reply = d]
    /\ UNCHANGED <<page, parse, plot, pts, app, scan>>

MarketNext ==
    \/ \E t \in TickerInputs : MarketSetTicker(t)
    \/ \E p \in MarketPeriods : MarketSetPeriod(p)
    \/ \E i \in MarketIntervals : MarketSetInterval(i)
    \/ handleTickerSubmit
    \/ \E i \in 1..Len(market.reqs), d \in ChartResponses : MarketResponse(i, d)

-----------------------------------------------------------------------------
(* The App prototype (frontend/src/App.jsx with its Header): the ticker,   *)
(* the market snapshot of the chart effect, the displayed regime and       *)
(* price, the trade and the requests in flight.  Steps, debate and the     *)
(* error banner of the prototype are left to the page above.               *)

\* Pipeline runs and chart fetches of the prototype over a behaviour.
MaxAppRuns == 2
MaxAppFetches == 3

\* What the Header's input can hold: its onChange uppercases what is typed.
AppInputs == {"", "RELIANCE", "TCS"}

\* null for market.
NoMarket == [present |-> FALSE, ticker |-> Null, regime |-> Null, price |-> NoNum]

\* The market data the server has for ticker t: its regime and
\* indicators.price.
Snapshot(t) ==
    [present |-> TRUE, ticker |-> t,
     regime |-> IF t = "RELIANCE" THEN "BULL" ELSE "BEAR",
     price |-> IF t = "RELIANCE" THEN 2800 ELSE 3500]

\* What fetchMarket of the prototype settles with for ticker t.
AppMarketReplies(t) == {Snapshot(t), NoMarket}

\* null for trade.
NoAppTrade == [present |-> FALSE, ticker |-> Null, regime |-> Null, entry |-> NoNum]

\* parseTrade(reply) for the replies of a run: a trade with or without the
\* agent's own regime and entry, its ticker left out.
AppTradeData ==
    {[NoAppTrade EXCEPT !.present = TRUE, !.regime = "SIDEWAYS", !.entry = 3000],
     [NoAppTrade EXCEPT !.present = TRUE]}

\* The chart effect of the prototype: cleanup of the last run of the effect,
\* then setChartError(null), setChartLoading(true), setMarket(null), the fetch.
AppChartEffect(a) ==
    [a EXCEPT !.chartError = Null, !.chartLoading = TRUE, !.market = NoMarket,
              !.chartReqs = Append(ChartCleanup(@),
                                   [ticker |-> a.ticker, cancelled |-> FALSE,
                                    state |-> "pending"])]

\* The prototype after mount.
AppMount ==
    AppChartEffect(
        [input |-> "RELIANCE", ticker |-> "RELIANCE", loading |-> FALSE,
         trade |-> NoAppTrade, regime |-> Null, price |-> NoNum,
         market |-> NoMarket, chartLoading |-> FALSE, chartError |-> Null,
         error |-> Null, chartReqs |-> <<>>, runs |-> <<>>])

\* handleRun(t) of App up to the await; the callback is the one of the last
\* render, whose closure holds that render's market.
AppRunStart(a, t) ==
    [a EXCEPT !.loading = TRUE, !.error = Null, !.trade = NoAppTrade,
              !.runs = Append(@, [ticker |-> t, market |-> a.market,
                                  state |-> "pending"])]

\* handleRun of the Header: setTicker(t), onRun(t), and the chart effect when
\* the ticker changed.
HeaderHandleRun(a) ==
    IF a.input = "" THEN a
    ELSE IF a.input = a.ticker THEN AppRunStart(a, a.input)
    ELSE AppChartEffect([AppRunStart(a, a.input) EXCEPT !.ticker = a.input])

\* onChange of the Header's input.
HeaderType(v) ==
    /\ v # app.input
    /\ app' = [app EXCEPT !.input = v]
    /\ UNCHANGED <<page, parse, plot, pts, market, scan>>

\* Room for the requests one call of handleRun issues.
AppRoom ==
    /\ app.input # ""
    /\ Len(app.runs) < MaxAppRuns
    /\ Len(app.chartReqs) < MaxAppFetches

\* onClick of the Run button (disabled={loading}).
HeaderClick ==
    /\ ~app.loading
    /\ AppRoom
    /\ app' = HeaderHandleRun(app)
    /\ UNCHANGED <<page, parse, plot, pts, market, scan>>

\* onKeyDown of the input with Enter: handleRun().
HeaderEnter ==
    /\ AppRoom
    /\ app' = HeaderHandleRun(app)
    /\ UNCHANGED <<page, parse, plot, pts, market, scan>>

\* handleRun after the await resolved, with tradeData parsed from the reply.
AppRunResolved(j, tradeData) ==
    /\ app.runs[j].state = "pending"
    /\ LET run == app.runs[j]
           regime == IF tradeData.regime # Null THEN tradeData.regime
                     ELSE run.market.regime
           entry == IF tradeData.entry # NoNum THEN tradeData.entry
                    ELSE run.market.price
       IN  app' = [app EXCEPT
                      !.trade = [present |-> TRUE, ticker |-> run.ticker,
                                 regime |-> regime, entry |-> entry],
                      !.regime = IF regime # Null THEN regime ELSE @,
                      !.price = IF entry # NoNum THEN entry ELSE @,
                      !.loading = FALSE,
                      !.runs[j].state = "settled"]
    /\ UNCHANGED <<page, parse, plot, pts, market, scan>>

\* handleRun after the await rejected.
AppRunRejected(j, message) ==
    /\ app.runs[j].state = "pending"
    /\ app' = [app EXCEPT !.error = message, !.loading = FALSE,
                          !.runs[j].state = "settled"]
    /\ UNCHANGED <<page, parse, plot, pts, market, scan>>

\* fetchMarket of chart request i of the prototype settles with d.
AppChartResponse(i, d) ==
    /\ app.chartReqs[i].state = "pending"
    /\ app' = [(IF app.chartReqs[i].cancelled THEN app
                ELSE IF d.present
                THEN [app EXCEPT !.market = d, !.chartError = Null,
                                 !.regime = IF @ # Null THEN @ ELSE d.regime,
                                 !.price = IF @ # NoNum THEN @ ELSE d.price,
                                 !.chartLoading = FALSE]
                ELSE [app EXCEPT !.chartError = "Failed to fetch",
                                 !.chartLoading = FALSE])
                  EXCEPT !.chartReqs[i].state = "settled"]
    /\ UNCHANGED <<page, parse, plot, pts, market, scan>>

AppNext ==
    \/ \E v \in AppInputs : HeaderType(v)
    \/ HeaderClick
    \/ HeaderEnter
    \/ \E j \in 1..Len(app.runs), td \in AppTradeData : AppRunResolved(j, td)
    \/ \E j \in 1..Len(app.runs), m \in FetchFailures : AppRunRejected(j, m)
    \/ \E i \in 1..Len(app.chartReqs) :
          \E d \in AppMarketReplies(app.chartReqs[i].ticker) : AppChartResponse(i, d)

-----------------------------------------------------------------------------
(* The scanner controls of the static dashboard: the disabled flags of the *)
(* Start and Stop buttons, the badge, the poll interval, and the number of *)
(* requests of each kind in flight.                                        *)

\* Requests the scanner controls issue over a behaviour, the status request
\* on load included.
MaxScanRequests == 4

\* The controls once the page is loaded: Start can be pressed, Stop is as
\* the markup has it, and loadScanStatus() of the DOMContentLoaded handler
\* is in flight.
ScanLoaded(stopDisabled) ==
    [startDisabled |-> FALSE, stopDisabled |-> stopDisabled, badge |-> FALSE,
     polling |-> FALSE, start |-> 0, stop |-> 0, status |-> 1, poll |-> 0,
     issued |-> 1]

\* The controls with Stop disabled in the markup.
ScanLoad == ScanLoaded(TRUE)

\* updateScanBadge(running)
updateScanBadge(s, running) == [s EXCEPT !.badge = running]

\* startScanPolling(): the interval is set unless one is.
startScanPolling(s) == [s EXCEPT !.polling = TRUE]

\* stopScanPolling()
stopScanPolling(s) == [s EXCEPT !.polling = FALSE]

\* The replies to POST /api/scan/start: a JSON body with a status, or a
\* failure of fetch or of res.json().
StartReplies == {"started", "already_running", "error", "reject"}

\* startAutoScan() up to the await: the Start button is pressed.
startAutoScan ==
    /\ ~scan.startDisabled
    /\ scan.issued < MaxScanRequests
    /\ scan' = [scan EXCEPT !.startDisabled = TRUE, !.start = @ + 1,
                            !.issued = @ + 1]
    /\ UNCHANGED <<page, parse, plot, pts, market, app>>

\* startAutoScan() after the await.
StartSettles(r) ==
    /\ scan.start > 0
    /\ scan' = [(IF r \in {"started", "already_running"}
                 THEN startScanPolling(
                          updateScanBadge([scan EXCEPT !.stopDisabled = FALSE],
                                          TRUE))
                 ELSE IF r = "reject"
                 THEN [scan EXCEPT !.startDisabled = FALSE]
                 ELSE scan)
                   EXCEPT !.start = @ - 1]
    /\ UNCHANGED <<page, parse, plot, pts, market, app>>

\* stopAutoScan() up to the await: the Stop button is pressed.
stopAutoScan ==
    /\ ~scan.stopDisabled
    /\ scan.issued < MaxScanRequests
    /\ scan' = [scan EXCEPT !.stopDisabled = TRUE, !.stop = @ + 1,
                            !.issued = @ + 1]
    /\ UNCHANGED <<page, parse, plot, pts, market, app>>

\* stopAutoScan() after the await: fetch resolved (with any status), or
\* rejected.
StopSettles(resolved) ==
    /\ scan.stop > 0
    /\ scan' = [(IF resolved
                 THEN stopScanPolling(
                          updateScanBadge([scan EXCEPT !.startDisabled = FALSE],
                                          FALSE))
                 ELSE [scan EXCEPT !.stopDisabled = FALSE])
                   EXCEPT !.stop = @ - 1]
    /\ UNCHANGED <<page, parse, plot, pts, market, app>>

\* The replies to GET /api/scan/status: auto_scan_running true or false, or
\* a failure.
StatusReplies == {"running", "idle", "reject"}

\* loadScanStatus() is called again (by manualScan() after its scan).
loadScanStatus ==
    /\ scan.issued < MaxScanRequests
    /\ scan' = [scan EXCEPT !.status = @ + 1, !.issued = @ + 1]
    /\ UNCHANGED <<page, parse, plot, pts, market, app>>

\* loadScanStatus() after its await.
StatusSettles(r) ==
    /\ scan.status > 0
    /\ scan' = [(IF r = "running"
                 THEN startScanPolling(
                          [updateScanBadge(scan, TRUE) EXCEPT
                              !.startDisabled = TRUE, !.stopDisabled = FALSE])
                 ELSE IF r = "idle" THEN updateScanBadge(scan, FALSE)
                 ELSE scan)
                   EXCEPT !.status = @ - 1]
    /\ UNCHANGED <<page, parse, plot, pts, market, app>>

\* The interval of startScanPolling fires: its status request is issued.
PollFires ==
    /\ scan.polling
    /\ scan.issued < MaxScanRequests
    /\ scan' = [scan EXCEPT !.poll = @ + 1, !.issued = @ + 1]
    /\ UNCHANGED <<page, parse, plot, pts, market, app>>

\* The interval's callback after its await.
PollSettles(r) ==
    /\ scan.poll > 0
    /\ scan' = [(IF r = "idle"
                 THEN [stopScanPolling(updateScanBadge(scan, FALSE)) EXCEPT
                          !.startDisabled = FALSE, !.stopDisabled = TRUE]
                 ELSE scan)
                   EXCEPT !.poll = @ - 1]
    /\ UNCHANGED <<page, parse, plot, pts, market, app>>

ScanNext ==
    \/ startAutoScan
    \/ \E r \in StartReplies : StartSettles(r)
    \/ stopAutoScan
    \/ \E resolved \in BOOLEAN : StopSettles(resolved)
    \/ loadScanStatus
    \/ \E r \in StatusReplies : StatusSettles(r)
    \/ PollFires
    \/ \E r \in StatusReplies : PollSettles(r)

-----------------------------------------------------------------------------
(* What is modelled beside the page, at rest                               *)

Beside == pts = NoPoints /\ market = MarketMount /\ app = AppMount /\ scan = ScanLoad

-----------------------------------------------------------------------------
(* The page                                                                *)

PageInit ==
    /\ ws = ChartEffectStart(
              [ticker |-> RELIANCE, periodIdx |-> DefaultPeriodIdx,
               candles |-> <<>>, chartLoading |-> FALSE, chartError |-> Null,
               loading |-> FALSE, trade |-> NoTrade, steps |-> NoSteps,
               debate |-> NoDebate, selectedStepIndex |-> NoIndex, error |-> Null])
    /\ chartReqs = <<NewChartReq(RELIANCE, DefaultPeriodIdx)>>
    /\ runs = <<>>
    /\ errTimer = NoTimer

\* The page after mount; no response is being worked on and no chart drawn.
Init == PageInit /\ parse = NoParse /\ plot = NoPlot /\ Beside

Unsettled(r) == r.phase # "settled"

\* A step of handleRun's catch: setError(message).
ErrorPlaced ==
    \E j \in 1..Len(runs) :
        Unsettled(runs[j]) /\ ~Unsettled(runs'[j]) /\ runs'[j].outcome # "ok"

\* The render after a step of the page, part of every step: the auto-dismiss
\* effect runs for the change of error the step made.
BannerEffect ==
    /\ errTimer' = [ErrorEffect(errTimer, ws.error, ws'.error) EXCEPT
                       !.age = IF ErrorPlaced \/ ws'.error = Null THEN 0 ELSE @]
    /\ UNCHANGED <<parse, plot, beside>>

\* The chart effect re-runs: cleanup of the last one, then the new body.
ChartEffect(w) ==
    /\ Len(chartReqs) < MaxChartFetches
    /\ ws' = ChartEffectStart(w)
    /\ chartReqs' = Append(ChartCleanup(chartReqs), NewChartReq(w.ticker, w.periodIdx))

\* setTicker(t) with an effect that runs after every set and first clears
\* the candles.
AfterSetTickerClearing(w, reqs, t) ==
    [ws |-> ChartEffectStart([w EXCEPT !.ticker = t, !.candles = <<>>]),
     chartReqs |-> Append(ChartCleanup(reqs), NewChartReq(t, w.periodIdx))]

\* setTicker(t) and the render after it: nothing for the value ticker
\* already has (the state and the effect's deps are the same), else the
\* chart effect re-runs.
AfterSetTicker(w, reqs, t) ==
    IF t = w.ticker
    THEN [ws |-> w, chartReqs |-> reqs]
    ELSE [ws |-> ChartEffectStart([w EXCEPT !.ticker = t]),
          chartReqs |-> Append(ChartCleanup(reqs), NewChartReq(t, w.periodIdx))]

\* onChange of the ticker input: setTicker, and the effect its change triggers.
SetTicker(t) ==
    /\ Len(AfterSetTicker(ws, chartReqs, t).chartReqs) <= MaxChartFetches
    /\ ws' = AfterSetTicker(ws, chartReqs, t).ws
    /\ chartReqs' = AfterSetTicker(ws, chartReqs, t).chartReqs
    /\ UNCHANGED runs
    /\ BannerEffect

\* onClick of a period button: setPeriodIdx, and the effect its change triggers.
SetPeriodIdx(i) ==
    /\ i # ws.periodIdx
    /\ ChartEffect([ws EXCEPT !.periodIdx = i])
    /\ UNCHANGED runs
    /\ BannerEffect

\* The promise of chart request i settles with d.
ChartResponse(i, d) ==
    /\ chartReqs[i].state = "pending"
    /\ ws' = ChartSettle(ws, chartReqs[i].cancelled, i, chartReqs[i].params, d)
    /\ chartReqs' = [chartReqs EXCEPT ![i].state = "settled", ![i].reply = d,
                                      ![i].stale = chartReqs[i].cancelled]
    /\ UNCHANGED runs
    /\ BannerEffect

\* handleRun is called: the synchronous part, and the POST is issued.
HandleRun ==
    /\ Len(runs) < MaxRuns
    /\ ws' = RunStart(ws)
    /\ runs' = Append(runs, NewRun(ws.ticker, \E j \in 1..Len(runs) : Unsettled(runs[j])))
    /\ UNCHANGED chartReqs
    /\ BannerEffect

\* The form with a Run button that is never disabled.
SubmitUnguarded == HandleRun

\* onSubmit of the form, by the Run button (disabled={loading}) or by Enter,
\* which a form does not submit while its submit button is disabled.
Submit ==
    /\ ~ws.loading
    /\ HandleRun

\* handleRun called while loading, past the disabled button.
RunAgain ==
    /\ ws.loading
    /\ HandleRun

Settle(r, outcome, message) ==
    [ClearTimer(r) EXCEPT !.phase = "settled", !.outcome = outcome,
                          !.message = message, !.elapsed = 0]

\* fetch() of run i resolves with an ok status: res.json() is returned and the
\* timer cleared.
PipeHeadersOk(i) ==
    /\ runs[i].phase = "headers"
    /\ runs' = [runs EXCEPT ![i] = [ClearTimer(runs[i]) EXCEPT !.phase = "body"]]
    /\ UNCHANGED <<ws, chartReqs>>
    /\ BannerEffect

\* fetch() of run i fails, or resolves with a non-ok status.
PipeFetchFails(i, message) ==
    /\ runs[i].phase = "headers"
    /\ runs' = [runs EXCEPT ![i] = Settle(runs[i], "failed", message)]
    /\ ws' = RunRejected(ws, message)
    /\ UNCHANGED chartReqs
    /\ BannerEffect

\* The abort timer of run i fires: fetch() rejects with an AbortError, which
\* runAnalysis rethrows as the timeout error.
PipeTimeout(i) ==
    /\ Unsettled(runs[i])
    /\ runs[i].timer
    /\ runs[i].elapsed >= TIMEOUT_MS
    /\ runs' = [runs EXCEPT ![i] = Settle(runs[i], "failed", TimeoutMessage)]
    /\ ws' = RunRejected(ws, TimeoutMessage)
    /\ UNCHANGED chartReqs
    /\ BannerEffect

\* res.json() of run i resolves with body.
PipeBodyParsed(i, body) ==
    /\ runs[i].phase = "body"
    /\ runs' = [runs EXCEPT ![i] =
                   Settle(runs[i], IF body = "badsteps" THEN "threw" ELSE "ok", body)]
    /\ ws' = RunResolved(ws, i, runs[i].raw, body)
    /\ UNCHANGED chartReqs
    /\ BannerEffect

\* res.json() of run i rejects.
PipeBodyFails(i, message) ==
    /\ runs[i].phase = "body"
    /\ runs' = [runs EXCEPT ![i] = Settle(runs[i], "failed", message)]
    /\ ws' = RunRejected(ws, message)
    /\ UNCHANGED chartReqs
    /\ BannerEffect


\* Time to the next armed abort timer, at most TickMs.
TickStep ==
    LET due == {TIMEOUT_MS - runs[j].elapsed :
                   j \in {k \in 1..Len(runs) : Unsettled(runs[k]) /\ runs[k].timer}}
    IN  IF due = {} THEN TickMs
        ELSE Min(TickMs, CHOOSE d \in due : \A e \in due : d <= e)

\* Time passes; a timer that is due fires before it passes further.
Tick ==
    /\ \E j \in 1..Len(runs) : Unsettled(runs[j]) /\ runs[j].elapsed <= TIMEOUT_MS
    /\ TickStep > 0
    /\ runs' = [j \in 1..Len(runs) |->
                   IF Unsettled(runs[j]) /\ runs[j].elapsed <= TIMEOUT_MS
                   THEN [runs[j] EXCEPT !.elapsed = @ + TickStep]
                   ELSE runs[j]]
    /\ UNCHANGED <<ws, chartReqs>>
    /\ BannerEffect

\* What the chart panel renders.
ChartPanel(w) ==
    IF w.chartLoading THEN "spinner"
    ELSE IF w.chartError # Null THEN "error"
    ELSE IF Len(w.candles) > 0 THEN "chart"
    ELSE "placeholder"

\* MarketChart: null for no candles, else the chart of the view (axes, grid
\* and one mark per candle).
MarketChart(candles) == IF Len(candles) = 0 THEN "nothing" ELSE "chart"

\* The steps the pipeline list shows: the state's, or pending placeholders.
ShownStep(w, i) ==
    IF w.steps # NoSteps /\ i + 1 <= Len(w.steps) THEN w.steps[i + 1] ELSE PendingStep

\* onClick that selects the row whether or not it is the selected one.
OnClickRowNoToggle(w, i) ==
    IF ShownStep(w, i).output # NoText
    THEN [w EXCEPT !.selectedStepIndex = i]
    ELSE w

\* onClick that does not test clickable.
OnClickRowAnyRow(w, i) ==
    [w EXCEPT !.selectedStepIndex = IF w.selectedStepIndex = i THEN NoIndex ELSE i]

\* onClick of row i: clickable && onSelectStep(selected ? null : i), with
\* onSelectStep the page's setSelectedStepIndex.
OnClickRow(w, i) ==
    IF ShownStep(w, i).output # NoText
    THEN [w EXCEPT !.selectedStepIndex =
                      IF w.selectedStepIndex = i THEN NoIndex ELSE i]
    ELSE w

\* A click on row i of the pipeline list that has an effect.
SelectStep(i) ==
    /\ ShownStep(ws, i).output # NoText
    /\ ws' = OnClickRow(ws, i)
    /\ UNCHANGED <<chartReqs, runs>>
    /\ BannerEffect

\* The banner's close button; where the banner's clock is not modelled, also
\* the 6.5 s timer of the error effect, firing at any time.
ClearError ==
    /\ ws.error # Null
    /\ ws' = [ws EXCEPT !.error = Null]
    /\ UNCHANGED <<chartReqs, runs>>
    /\ BannerEffect

\* The timeout of the auto-dismiss effect fires: setError(null).
ErrorTimerFires ==
    /\ errTimer.armed
    /\ errTimer.elapsed >= ERROR_MS
    /\ ws' = [ws EXCEPT !.error = Null]
    /\ errTimer' = NoTimer
    /\ UNCHANGED <<chartReqs, runs, parse, plot, beside>>

\* Time passes for the banner; its timeout fires before time passes further.
BannerTick ==
    /\ errTimer.armed
    /\ errTimer.elapsed < ERROR_MS
    /\ LET d == Min(BannerTickMs, ERROR_MS - errTimer.elapsed)
       IN  errTimer' = [errTimer EXCEPT !.elapsed = @ + d, !.age = @ + d]
    /\ UNCHANGED <<ws, chartReqs, runs, parse, plot, beside>>

\* The steps the model clicks.
StepChoices == {0, 3}

ChartNext ==
    \/ \E t \in TickerInputs : SetTicker(t)
    \/ \E i \in PeriodChoices : SetPeriodIdx(i)
    \/ \E i \in 1..Len(chartReqs), d \in ChartResponses : ChartResponse(i, d)

PipeNext ==
    \/ \E i \in 1..Len(runs) : PipeHeadersOk(i)
    \/ \E i \in 1..Len(runs), m \in FetchFailures : PipeFetchFails(i, m)
    \/ \E i \in 1..Len(runs) : PipeTimeout(i)
    \/ \E i \in 1..Len(runs), b \in AnalysisBodies : PipeBodyParsed(i, b)
    \/ \E i \in 1..Len(runs), m \in BodyFailures : PipeBodyFails(i, m)
    \/ Tick
    \/ \E i \in StepChoices : SelectStep(i)
    \/ ClearError

\* The requests both channels may issue together in the specification of
\* the two channels side by side.
MaxJoint == 3

\* The chart channel alone.
SpecChart == Init /\ [][ChartNext]_vars

\* The pipeline channel alone, driven through the form.
PipeUINext == PipeNext \/ Submit

SpecPipe == Init /\ [][PipeUINext]_vars

\* The pipeline channel with handleRun also called while a run is in flight.
PipeSlipNext == PipeNext \/ Submit \/ RunAgain

SpecPipeSlip == Init /\ [][PipeSlipNext]_vars

\* The page as the user drives it: both channels.
Next ==
    /\ ChartNext \/ PipeNext \/ Submit
    /\ Len(chartReqs') + Len(runs') <= MaxJoint

Spec == Init /\ [][Next]_vars

\* The pipeline channel driven through the form, with the banner's clock.
BannerNext ==
    \/ PipeUINext
    \/ BannerTick
    \/ ErrorTimerFires

\* Timers that are due fire, and time goes on while one is pending.
SpecBanner ==
    /\ Init
    /\ [][BannerNext]_vars
    /\ WF_vars(BannerTick)
    /\ WF_vars(ErrorTimerFires)

-----------------------------------------------------------------------------
(* Responses handleRun is given                                            *)

\* The longest typed steps array.
MaxTypedSteps == 8

\* Replies for the steps: nothing; evidence of a trade; a rejected trade
\* with its entry and reason; a skip without evidence of a trade; a regime,
\* a verdict and a debate.
StepReplies ==
    {<<>>,
     <<Word("check_risk")>>,
     <<Line("Entry", "", 100 * Unit), Line("Status", "REJECTED", NoNum),
       Line("Reason", "low rr", NoNum)>>,
     <<Word("Skipped")>>,
     <<Line("Regime", "BULL", NoNum), Line("Verdict", "SELL", NoNum),
       Word("debate")>>}

\* The statuses a server may give a step; "" when it gives none.
ServerStatuses == {"", "pending", "running", "complete", "flagged"}

\* The outputs the Trade Executor step may carry.
ExecutorOutputs == {<<>>, <<Word("killed")>>}

\* A typed steps array of n entries: complete steps around a first step
\* with status s1 and a Trade Executor step with status s5 and output o5.
StepsInput(n, s1, s5, o5) ==
    [i \in 1..n |->
        IF i = 1 THEN RawStep(s1, "", <<>>)
        ELSE IF i = 5 THEN RawStep(s5, "", o5)
        ELSE RawStep("complete", "Complete", <<>>)]

\* No steps array, or one of nearly seven to MaxTypedSteps entries.
StepArrays ==
    {<<>>} \cup
    {StepsInput(n, s1, s5, o5) :
        n \in (NumSteps - 1)..MaxTypedSteps,
        s1 \in {"", "running", "complete"},
        s5 \in ServerStatuses,
        o5 \in ExecutorOutputs}

InitSteps ==
    /\ PageInit
    /\ plot = NoPlot
    /\ Beside
    /\ \E reply \in StepReplies, steps \in StepArrays :
          parse = [NoParse EXCEPT !.reply = reply, !.steps = steps]

\* handleRun on responses that differ in their reply and steps.
SpecSteps == InitSteps /\ [][ParseNext]_vars

\* Replies for the trade: nothing; a rejection in words only; a trade
\* spelled out line by line.
TradeReplies ==
    {<<>>,
     <<Word("REJECTED")>>,
     <<Line("Ticker", "TCS", NoNum), Line("Verdict", "sell", NoNum),
       Line("Entry Price", "", 3500 * Unit), Line("Stop", "", 3620 * Unit),
       Line("Target", "", 3260 * Unit), Line("Risk Reward", "", 2 * Unit),
       Line("Status", "REJECTED", NoNum), Line("Reason", "low rr", NoNum)>>}

\* Typed trades: each of ticker, action, entry, regime and conviction given
\* or left out, entry and conviction also given as 0.
TypedTrades ==
    {Present(Trade(ticker, action, entry, 2755 * Unit, 3050 * Unit,
                   5550, regime, conviction, killed, Null, NoDetails)) :
        ticker \in {Null, "INFY"},
        action \in {Null, "BUY"},
        entry \in {NoNum, 0, 2800 * Unit},
        regime \in {Null, "BULL"},
        conviction \in {NoNum, 0},
        killed \in BOOLEAN}

InitTrade ==
    /\ PageInit
    /\ plot = NoPlot
    /\ Beside
    /\ \E reply \in TradeReplies, trade \in {NoTypedTrade} \cup TypedTrades :
          parse = [NoParse EXCEPT !.reply = reply, !.trade = trade]

\* handleRun on responses that differ in their reply and typed trade.
SpecTrade == InitTrade /\ [][ParseNext]_vars

\* Texts of a debate: none; both theses with a conviction as a fraction
\* and as a percentage; a bull thesis with a percentage above 100.
DebateTexts ==
    {<<>>,
     <<Line("BULL_THESIS", "", NoNum), Word("Breakout confirmed on 20d high"),
       Word("Volume ratio 1.8x"), Line("Conviction", "", 720),
       Line("BEAR_THESIS", "", NoNum), Word("RSI 78 overbought"),
       Word("Weak sector sentiment"), Line("Conviction", "", 65 * Unit),
       Line("CIO_DECISION", "BUY", NoNum)>>,
     <<Line("BULL_THESIS", "", NoNum), Word("Breakout confirmed on 20d high"),
       Line("Conviction", "", 150 * Unit)>>}

\* A typed steps array whose Debate step carries output.
DebateSteps(output) ==
    [i \in 1..NumSteps |->
        RawStep("complete", "Complete",
                IF i = DebateIndex + 1 THEN output ELSE <<>>)]

\* Typed debates: each thesis given or left out, the bull's conviction left
\* out, 0, a fraction or a percentage.
TypedDebates ==
    {[bull |-> bull, bear |-> bear] :
        bull \in {NoThesis} \cup
                 {Thesis(<<"Breakout confirmed">>, c) :
                     c \in {NoNum, 0, 720, 65 * Unit}},
        bear \in {NoThesis, Thesis(<<>>, 650)}}

InitDebate ==
    /\ PageInit
    /\ plot = NoPlot
    /\ Beside
    /\ \E reply \in DebateTexts, output \in DebateTexts,
          debate \in TypedDebates :
          parse = [NoParse EXCEPT
                      !.reply = reply,
                      !.steps = IF output = <<>> THEN <<>>
                                ELSE DebateSteps(output),
                      !.debate = debate]

\* handleRun on responses that differ in their reply, the Debate step's
\* output and the typed debate.
SpecDebate == InitDebate /\ [][ParseNext]_vars

\* The most candles the chart is given, and the highest price.
MaxBars == 2
MaxPrice == 3

\* Candles with 0 <= low <= high <= MaxPrice.
Bars ==
    {b \in [low : 0..MaxPrice, high : 0..MaxPrice] : b.low <= b.high}

\* Sequences of up to n candles.
RECURSIVE BarSeqs(_)
BarSeqs(n) ==
    IF n = 0 THEN {<<>>}
    ELSE BarSeqs(n - 1) \cup
         {Append(s, b) : s \in {q \in BarSeqs(n - 1) : Len(q) = n - 1},
                         b \in Bars}

InitPlot ==
    /\ PageInit
    /\ Beside
    /\ parse = NoParse
    /\ \E candles \in BarSeqs(MaxBars) \ {<<>>} :
          plot = [NoPlot EXCEPT !.candles = candles]

\* CandlestickSVG on non-empty candle sets.
SpecPlot == InitPlot /\ [][Render]_vars

\* The longest section drawn line by line.
MaxSectionLen == 3

\* A string of n characters.
RECURSIVE Filler(_)
Filler(n) ==
    IF n = 0 THEN ""
    ELSE IF n % 2 = 0 THEN Only({h \o h : h \in {Filler(n \div 2)}})
    ELSE "x" \o Filler(n - 1)

\* A string of n characters that starts with c.
Filled(c, n) == c \o Filler(n - 1)

\* Lines around the two length limits of extractPoints, and a header line.
PointLines ==
    {Word(Filled("a", MinPointLen - 1)), Word(Filled("b", MinPointLen)),
     Word(Filled("c", MinPointLen + 1)), Word(Filled("d", MaxPointLen - 1)),
     Word(Filled("e", MaxPointLen)), Word(Filled("f", MaxPointLen + 1)),
     Line("Conviction", "seventy two percent", NoNum)}

\* A section with one line more than extractPoints keeps.
LongSection == [i \in 1..(MaxPoints + 1) |-> Word(Filled("g", MinPointLen + i))]

Sections ==
    UNION {[1..n -> PointLines] : n \in 0..MaxSectionLen} \cup {LongSection}

InitPoints ==
    /\ PageInit
    /\ parse = NoParse
    /\ plot = NoPlot
    /\ market = MarketMount
    /\ app = AppMount
    /\ scan = ScanLoad
    /\ \E section \in Sections : pts = [NoPoints EXCEPT !.section = section]

\* extractPoints on sections that differ in their lines.
SpecPoints == InitPoints /\ [][ExtractPoints]_vars

InitMarket ==
    /\ PageInit
    /\ parse = NoParse
    /\ plot = NoPlot
    /\ pts = NoPoints
    /\ market = MarketMount
    /\ app = AppMount
    /\ scan = ScanLoad

\* The Market page alone.
SpecMarket == InitMarket /\ [][MarketNext]_vars

InitApp ==
    /\ PageInit
    /\ parse = NoParse
    /\ plot = NoPlot
    /\ pts = NoPoints
    /\ market = MarketMount
    /\ app = AppMount
    /\ scan = ScanLoad

\* The App prototype alone.
SpecApp == InitApp /\ [][AppNext]_vars

InitScan ==
    /\ PageInit
    /\ parse = NoParse
    /\ plot = NoPlot
    /\ pts = NoPoints
    /\ market = MarketMount
    /\ app = AppMount
    /\ \E stopDisabled \in BOOLEAN : scan = ScanLoaded(stopDisabled)

\* The scanner controls alone.
SpecScan == InitScan /\ [][ScanNext]_vars

-----------------------------------------------------------------------------
(* Properties                                                              *)

LastChart == Len(chartReqs)
AllChartSettled == \A i \in 1..Len(chartReqs) : chartReqs[i].state = "settled"
ChartOk(i) == chartReqs[i].state = "settled" /\ chartReqs[i].reply.status = "success"
ReplyPayload(i) == Payload(i, chartReqs[i].params, chartReqs[i].reply.n)
AllRunsSettled == \A j \in 1..Len(runs) : ~Unsettled(runs[j])

\* C1: once every chart response has arrived, the candles held are the
\* payload returned for the last ticker/period change, and no candle of an
\* earlier request is held.
C1_LastRequestHeld ==
    AllChartSettled =>
        /\ ChartOk(LastChart) => ws.candles = ReplyPayload(LastChart)
        /\ \A k \in 1..Len(ws.candles) : ws.candles[k].req = LastChart

\* C2: when handleRun was called again while a run was in flight, then once
\* all runs have settled trade, steps, debate and error are those the later
\* call alone produces (the error possibly dismissed since).
C2_LaterRunWins ==
    LET k == Len(runs)
        e == IF runs[k].outcome = "failed"
             THEN RunRejected(RunStart(ws), runs[k].message)
             ELSE RunResolved(RunStart(ws), k, runs[k].raw, runs[k].message)
    IN  (k >= 2 /\ AllRunsSettled /\ runs[k].overlapped) =>
            /\ ws.trade = e.trade
            /\ ws.steps = e.steps
            /\ ws.debate = e.debate
            /\ ws.error \in {e.error, Null}

\* C3: a chart response arriving for a superseded request changes nothing
\* of the page's state, whatever the response is.
C3_StaleResponseChangesNothing ==
    [][\A i \in 1..Len(chartReqs) :
          (chartReqs[i].state = "pending" /\ chartReqs[i].cancelled
             /\ chartReqs'[i].state = "settled") => ws' = ws]_vars

\* Two superseded requests have settled late, one with a success and one
\* with a failure, and the current one is still loading.
C3_Witness ==
    \E i, j \in 1..Len(chartReqs) :
        /\ chartReqs[i].stale /\ chartReqs[i].reply.status = "success"
        /\ chartReqs[i].reply.n > 0
        /\ chartReqs[j].stale /\ chartReqs[j].reply.kind = "reject"
        /\ chartReqs[LastChart].state = "pending"

\* C4: a chart request superseded while in flight is aborted at the
\* transport.
C4_SupersededAborted ==
    \A i \in 1..Len(chartReqs) :
        (chartReqs[i].cancelled /\ chartReqs[i].state = "pending") => chartReqs[i].aborted

\* C5: a call of handleRun sets, in the one step that issues the request,
\* loading, no trade, no debate, no error, no selection, and one running step
\* followed by six pending ones.
C5_RunStartAtomic ==
    [][Len(runs') > Len(runs) =>
          /\ runs'[Len(runs')].phase = "headers"
          /\ ws'.loading
          /\ ws'.trade = NoTrade
          /\ ws'.debate = NoDebate
          /\ ws'.error = Null
          /\ ws'.selectedStepIndex = NoIndex
          /\ Len(ws'.steps) = 7
          /\ ws'.steps[1].status = "running"
          /\ \A i \in 2..7 : ws'.steps[i].status = "pending"]_vars

\* A second run has just started after a first one left a result.
C5_Witness ==
    /\ Len(runs) = 2
    /\ runs[1].outcome = "ok"
    /\ runs[2].phase = "headers" /\ runs[2].elapsed = 0
    /\ ws.loading /\ ws.trade = NoTrade /\ ws.steps = RunningSteps

\* C6: when a pipeline request fails (non-ok status, transport error or
\* timeout), that step leaves error set to the message, steps absent and
\* loading false.
C6_FailureEndsRun ==
    [][\A j \in 1..Len(runs) :
          (Unsettled(runs[j]) /\ ~Unsettled(runs'[j]) /\ runs'[j].outcome = "failed") =>
              /\ ws'.error = runs'[j].message
              /\ ws'.steps = NoSteps
              /\ ws'.loading = FALSE]_vars

\* A run has failed on a non-ok status and the page shows it.
C6_Witness ==
    \E j \in 1..Len(runs) :
        /\ runs[j].outcome = "failed" /\ runs[j].message = "API error: 500"
        /\ ws.error = "API error: 500" /\ ws.steps = NoSteps /\ ~ws.loading

\* C7: no pipeline request is unsettled, and so no run loading, past the
\* 5 minute deadline.
C7_DeadlineEnforced ==
    \A j \in 1..Len(runs) : Unsettled(runs[j]) => runs[j].elapsed <= TIMEOUT_MS

\* C8: candles are non-empty only if the most recent chart request
\* succeeded: while it is in flight loading is set, the error absent and the
\* candles empty, and after it failed the error is set and the candles empty.
C8_CandlesOnlyFromLastSuccess ==
    /\ chartReqs[LastChart].state = "pending" =>
           ws.chartLoading /\ ws.chartError = Null /\ ws.candles = <<>>
    /\ (chartReqs[LastChart].state = "settled" /\ ~ChartOk(LastChart)) =>
           ws.chartError # Null /\ ws.candles = <<>>
    /\ ws.candles # <<>> => ChartOk(LastChart)

ChartFields(w) == <<w.candles, w.chartLoading, w.chartError>>
PipeFields(w) == <<w.trade, w.steps, w.debate, w.loading, w.error, w.selectedStepIndex>>

\* What run j can settle with from where it is.
PipeReplies(j) ==
    IF runs[j].phase = "headers"
    THEN [ok : {FALSE}, v : FetchFailures \cup {TimeoutMessage}]
    ELSE IF runs[j].phase = "body"
    THEN [ok : {TRUE}, v : AnalysisBodies] \cup [ok : {FALSE}, v : BodyFailures]
    ELSE {}

PipeSettle(w, j, r) ==
    IF r.ok THEN RunResolved(w, j, runs[j].raw, r.v) ELSE RunRejected(w, r.v)

\* C10: applying a chart response changes no pipeline field, applying a
\* pipeline response changes no chart field, and a pending chart response
\* and a pending pipeline response give the same state in either order.
C10_ChannelsIndependent ==
    /\ [][/\ (\E i \in 1..Len(chartReqs) :
                 chartReqs[i].state = "pending" /\ chartReqs'[i].state = "settled")
             => PipeFields(ws') = PipeFields(ws)
          /\ (\E j \in 1..Len(runs) : Unsettled(runs[j]) /\ ~Unsettled(runs'[j]))
             => ChartFields(ws') = ChartFields(ws)]_vars
    /\ [](\A i \in 1..Len(chartReqs), j \in 1..Len(runs) :
            chartReqs[i].state = "pending" =>
                \A d \in ChartResponses, r \in PipeReplies(j) :
                    LET c == chartReqs[i] IN
                    ChartSettle(PipeSettle(ws, j, r), c.cancelled, i, c.params, d)
                      = PipeSettle(ChartSettle(ws, c.cancelled, i, c.params, d), j, r))

\* The current chart request and a run's body are both pending, with
\* candles of an earlier request on the page.
C10_Witness ==
    /\ chartReqs[LastChart].state = "pending"
    /\ \E j \in 1..Len(runs) : runs[j].phase = "body"
    /\ ws.candles # <<>>

\* C11: while loading is set no step of the page starts another run, and at
\* most one analyze request is in flight at any time.
C11_OneRunInFlight ==
    /\ [](Cardinality({j \in 1..Len(runs) : Unsettled(runs[j])}) <= 1)
    /\ [][ws.loading => Len(runs') = Len(runs)]_vars

\* A second run is in flight, started after the first one settled, with the
\* Run button disabled again.
C11_Witness ==
    /\ Len(runs) = 2
    /\ ~Unsettled(runs[1]) /\ Unsettled(runs[2])
    /\ ws.loading

\* C12: every error in the banner is eventually cleared; the timer pending
\* is the one armed for the error now shown, and when it clears the error
\* that error has been shown for 6.5 s.
C12_BannerCleared ==
    /\ (ws.error # Null) ~> (ws.error = Null)
    /\ [](errTimer.armed <=> ws.error # Null)
    /\ [](errTimer.armed => errTimer.elapsed = errTimer.age)
    /\ [][(errTimer.armed /\ ~errTimer'.armed /\ errTimer'.elapsed = 0
             /\ UNCHANGED runs /\ ws.error # Null /\ ws'.error = Null
             /\ errTimer.elapsed >= ERROR_MS)
          => errTimer.age >= ERROR_MS]_vars

\* A second error is in the banner, placed after the first one had been
\* shown for a while and was cleared by the start of the second run, and its
\* timer is half way.
C12_Witness ==
    /\ Len(runs) = 2
    /\ runs[1].outcome = "failed" /\ runs[2].outcome = "failed"
    /\ ws.error = runs[2].message
    /\ errTimer.armed /\ errTimer.elapsed > 0 /\ errTimer.elapsed < ERROR_MS

\* The rank of a status in pending < running < complete/flagged.
Rank(status) ==
    CASE status = "pending" -> 0
      [] status = "running" -> 1
      [] OTHER -> 2

\* The corpus of the response being worked on.
Corpus == FullText(parse.reply, parse.steps)

\* C13: once the response is parsed, a corpus with REJECTED, SKIPPED or
\* killed has the Trade Executor step flagged.
C13_RejectedIsFlagged ==
    (parse.phase = "done" /\ Rejected(Corpus))
        => parse.outSteps[5].status = "flagged"

\* C14: no step of a run moves to a status of lower rank.
C14_StatusNeverBackwards ==
    [][\A i \in 1..Len(parse.outSteps) :
          i <= Len(parse'.outSteps)
              => Rank(parse'.outSteps[i].status) >= Rank(parse.outSteps[i].status)]_vars

\* C16: the steps, when present, are exactly seven.
C16_SevenSteps ==
    parse.outSteps # NoSteps => Len(parse.outSteps) = NumSteps

\* C15: a typed trade with action or entry present is the trade shown, field
\* by field, its ticker that of the caller when it has none.
C15_TypedTradeAdopted ==
    (/\ parse.phase = "done"
     /\ parse.trade.present
     /\ parse.trade.t.action # Null \/ parse.trade.t.entry # NoNum)
        => parse.outTrade =
              Present([parse.trade.t EXCEPT
                          !.ticker = IF @ = Null THEN parse.ticker ELSE @])

\* The theses the page shows.
ShownTheses == {parse.outDebate.bull, parse.outDebate.bear}

\* C19: the conviction of every thesis of a run is at most 1, and its bar is
\* between 0% and 100% wide.
C19_BarWithinTrack ==
    parse.phase = "done"
        => \A th \in ShownTheses :
              /\ th.present => th.conviction <= Unit
              /\ Pct(th) \in 0..100

\* The rows of the pipeline list.
Rows == 0..(NumSteps - 1)

\* C17: one index at most is selected; a click on a row with output that is
\* not the selected one selects it, and a second click on it right after
\* leaves no row selected.
C17_SecondClickClears ==
    /\ ws.selectedStepIndex \in {NoIndex} \cup Rows
    /\ \A i \in Rows :
          (ShownStep(ws, i).output # NoText /\ ws.selectedStepIndex # i)
              => /\ OnClickRow(ws, i).selectedStepIndex = i
                 /\ OnClickRow(OnClickRow(ws, i), i).selectedStepIndex = NoIndex

\* The steps carry output, one row is selected and a click on another row
\* would select that one.
C17_Witness ==
    /\ ws.steps # NoSteps
    /\ ws.selectedStepIndex = 3
    /\ ShownStep(ws, 0).output # NoText
    /\ OnClickRow(ws, 0).selectedStepIndex = 0

\* C18: setting the ticker to the value it has starts one chart fetch at
\* most and leaves the candles as they are.
C18_SameTickerIsIdle ==
    /\ AfterSetTicker(ws, chartReqs, ws.ticker).ws.candles = ws.candles
    /\ Len(AfterSetTicker(ws, chartReqs, ws.ticker).chartReqs)
          <= Len(chartReqs) + 1

\* Candles of a ticker the user typed are shown and nothing is in flight.
C18_Witness ==
    /\ ws.ticker = infy
    /\ ws.candles # <<>>
    /\ ~ws.chartLoading
    /\ AfterSetTicker(ws, chartReqs, ws.ticker).chartReqs = chartReqs

\* C20: the price domain of a drawn chart lies strictly around every candle
\* and is not empty.
C20_DomainEnclosesCandles ==
    plot.drawn
        => /\ plot.priceMin < plot.priceMax
           /\ \A k \in 1..Len(plot.candles) :
                 /\ plot.priceMin < plot.candles[k].low * PriceScale
                 /\ plot.candles[k].high * PriceScale < plot.priceMax

\* C21: with fewer than two candles and neither a load nor an error showing,
\* the chart panel shows its placeholder and MarketChart draws no chart.
C21_FewCandlesPlaceholder ==
    (Len(ws.candles) < 2 /\ ~ws.chartLoading /\ ws.chartError = Null)
        => /\ ChartPanel(ws) = "placeholder"
           /\ ~(ChartPanel(ws) = "chart" /\ MarketChart(ws.candles) = "chart")

\* C22: every chart request and every analyze request carries its ticker
\* trimmed and uppercased, and a run started for the ticker of the page asks
\* about the symbol the chart request of that ticker asks about.
C22_RequestsCarryNormalTicker ==
    /\ \A i \in 1..Len(chartReqs) :
          chartReqs[i].params.ticker = ToUpperCase(Trim(chartReqs[i].params.ticker))
    /\ \A j \in 1..Len(runs) :
          /\ runs[j].ticker = ToUpperCase(Trim(runs[j].raw))
          /\ runs[j].raw = ws.ticker
                => runs[j].ticker = chartReqs[Len(chartReqs)].params.ticker

\* C23: after a successful run, a trade that is killed has the Trade
\* Executor step flagged.
C23_KilledTradeFlagsExecutor ==
    (parse.phase = "done" /\ parse.outTrade.present /\ parse.outTrade.t.killed)
        => parse.outSteps[5].status = "flagged"

\* The lines of a section with 10 to 300 characters that are no header, in
\* order, the first six of them.
LinesOfTenToThreeHundred(section) ==
    LET Keep(l) == /\ Len(LineString(l)) >= 10
                   /\ Len(LineString(l)) <= 300
                   /\ Lower(l.label) \notin {"conviction", "bull_thesis",
                                             "bear_thesis", "cio_decision"}
        kept == SelectSeq(section, Keep)
    IN  [i \in 1..Min(6, Len(kept)) |-> LineString(kept[i])]

\* C24: the points extracted from a section are its lines of 10 to 300
\* characters that begin with no section header, in their order, the first
\* six of them.
C24_PointsAreTheKeptLines ==
    pts.phase = "done" => pts.out = LinesOfTenToThreeHundred(pts.section)

\* C25: the chart's loading flag is set exactly while the chart request
\* issued last is unsettled, and the pipeline's exactly while the run started
\* last is; a response to an older request leaves the flag set.
C25_LoadingTracksLastRequest ==
    /\ ws.chartLoading <=> chartReqs[LastChart].state = "pending"
    /\ ws.loading <=> (runs # <<>> /\ Unsettled(runs[Len(runs)]))
    /\ \A i \in 1..(LastChart - 1) :
          ChartSettle(ws, chartReqs[i].cancelled, i, chartReqs[i].params,
                      [NoReply EXCEPT !.kind = "json", !.status = "success"])
              .chartLoading = ws.chartLoading

\* The response to an older chart request has arrived while the last one is
\* in flight, and a run has settled.
C25_Witness ==
    /\ LastChart >= 2
    /\ chartReqs[1].state = "settled" /\ chartReqs[1].stale
    /\ chartReqs[LastChart].state = "pending"
    /\ ws.chartLoading
    /\ runs # <<>> /\ ~Unsettled(runs[Len(runs)]) /\ ~ws.loading

\* C26: a selected index points at a step that is present and has output; a
\* click on a step without output selects nothing.
C26_SelectionHasOutput ==
    /\ ws.selectedStepIndex # NoIndex
          => /\ ws.steps # NoSteps
             /\ ws.selectedStepIndex + 1 <= Len(ws.steps)
             /\ ws.steps[ws.selectedStepIndex + 1].output # NoText
    /\ \A i \in Rows :
          ShownStep(ws, i).output = NoText => OnClickRow(ws, i) = ws

\* A step with output is selected in the result of a run that followed a
\* failed run.
C26_Witness ==
    /\ Len(runs) = 2
    /\ runs[1].outcome = "failed" /\ runs[2].outcome = "ok"
    /\ ws.selectedStepIndex = 3
    /\ ws.steps # NoSteps
    /\ ws.steps[4].output # NoText

MarketLast == Len(market.reqs)
MarketAllSettled == \A i \in 1..MarketLast : market.reqs[i].state = "settled"

\* C27: on the Market page loading is false only when no request is in
\* flight, and once every request has settled the candles or the error shown
\* are those of the request issued last.
C27_MarketShowsLastRequest ==
    /\ ~market.loading => MarketAllSettled
    /\ MarketAllSettled =>
          market =
              MarketFinally(
                  IF market.reqs[MarketLast].reply.kind = "json"
                  THEN MarketThen([market EXCEPT !.error = Null], MarketLast,
                                  market.reqs[MarketLast].reply)
                  ELSE MarketCatch(market,
                                   market.reqs[MarketLast].reply.error_message))

\* C28: in the App prototype no run starts while loading is true, and at
\* most one analysis request is in flight.
C28_OneAppRunInFlight ==
    /\ [][app.loading => app'.runs = app.runs]_vars
    /\ [](Cardinality({j \in 1..Len(app.runs) : app.runs[j].state = "pending"}) <= 1)

\* The ticker the prototype does not show.
OtherTicker == IF app.ticker = "RELIANCE" THEN "TCS" ELSE "RELIANCE"

\* The chart fetch for the ticker shown has been applied, after one for the
\* other ticker was issued.
AppChartApplied ==
    /\ app.market.present
    /\ app.market.ticker = app.ticker
    /\ \E i \in 1..Len(app.chartReqs) : app.chartReqs[i].ticker = OtherTicker

\* C29: once the ticker has changed and the chart fetch for the new ticker
\* is applied, the regime and price displayed, and the regime and entry of a
\* trade for the new ticker, are not those of the old ticker's snapshot.
C29_NothingFromOldSnapshot ==
    AppChartApplied =>
        /\ app.regime # Snapshot(OtherTicker).regime
        /\ app.price # Snapshot(OtherTicker).price
        /\ (app.trade.present /\ app.trade.ticker = app.ticker) =>
               /\ app.trade.regime # Snapshot(OtherTicker).regime
               /\ app.trade.entry # Snapshot(OtherTicker).price

\* C30: whenever no start and no stop request is in flight, the Start button
\* or the Stop button is enabled.
C30_StartOrStopEnabled ==
    (scan.start = 0 /\ scan.stop = 0)
        => (~scan.startDisabled \/ ~scan.stopDisabled)

====
